---- MODULE Spec2Model ----
(***************************************************************************)
(* A model of the e-commerce backend: the product catalogue, the order     *)
(* workflow (OrderViewSet.create_order), the orders resource and the       *)
(* reviews, as the views, serializers and models of src/products define    *)
(* them.  The database is one store of rows; every HTTP request is served  *)
(* by a request slot (a worker), and two slots run concurrently.  A        *)
(* handler that touches the database once is one step; create_order, which *)
(* reads, writes and reads again without a transaction, is one step per    *)
(* query.  Strings that the code parses or searches are sequences of       *)
(* one-character strings.                                                  *)
(***************************************************************************)
EXTENDS Integers, Sequences, FiniteSets, TLC

(***************************************************************************)
(* Bounds of the model.                                                    *)
(***************************************************************************)
MaxProducts == 2
MaxOrders == 2
MaxReviews == 1
MaxStock == 2
MaxRates == 1
MaxTokens == 3

Users == {"alice", "bob"}
Procs == {"w1", "w2"}

ProductIds == 1..MaxProducts
OrderIds == 1..MaxOrders
ReviewIds == 1..MaxReviews
RateIds == 1..MaxRates

(***************************************************************************)
(* Python values and conversions used by the handlers.                     *)
(***************************************************************************)
\* A string is a TLC string; Chars gives the characters of the strings the
\* model's requests and rows hold.
Chars(s) ==
    CASE s = "" -> <<>>
      [] s = "0" -> <<"0">>
      [] s = "2" -> <<"2">>
      [] s = " 1" -> <<" ", "1">>
      [] s = "-1" -> <<"-", "1">>
      [] s = "1.5" -> <<"1", ".", "5">>
      [] s = "x" -> <<"x">>
      [] s = "z" -> <<"z">>
      [] s = "tE" -> <<"t", "E">>
      [] s = "Tee" -> <<"T", "e", "e">>
      [] s = "hat" -> <<"h", "a", "t">>
      [] s = "pants" -> <<"p", "a", "n", "t", "s">>
      [] s = "t-shirts" -> <<"t", "-", "s", "h", "i", "r", "t", "s">>
      [] s = "shoes" -> <<"s", "h", "o", "e", "s">>
      [] s = "jerseys" -> <<"j", "e", "r", "s", "e", "y", "s">>
      [] s = "dresses" -> <<"d", "r", "e", "s", "s", "e", "s">>
      [] s = "socks" -> <<"s", "o", "c", "k", "s">>
      [] s = "shorts" -> <<"s", "h", "o", "r", "t", "s">>

DigitChars == <<"0", "1", "2", "3", "4", "5", "6", "7", "8", "9">>
UpperChars == <<"A", "B", "C", "D", "E", "F", "G", "H", "I", "J", "K", "L", "M",
                "N", "O", "P", "Q", "R", "S", "T", "U", "V", "W", "X", "Y", "Z">>
LowerChars == <<"a", "b", "c", "d", "e", "f", "g", "h", "i", "j", "k", "l", "m",
                "n", "o", "p", "q", "r", "s", "t", "u", "v", "w", "x", "y", "z">>

DigitSet == {DigitChars[i] : i \in 1..10}
DigitOf == [c \in DigitSet |-> (CHOOSE i \in 1..10 : DigitChars[i] = c) - 1]

IsDigit(c) == c \in DigitSet
DigitValue(c) == DigitOf[c]

UpperSet == {UpperChars[i] : i \in 1..26}
LowerOf == [c \in UpperSet |-> LowerChars[CHOOSE i \in 1..26 : UpperChars[i] = c]]

\* str.lower() of one character
LowerChar(c) == IF c \in UpperSet THEN LowerOf[c] ELSE c

Lower(s) == [i \in 1..Len(s) |-> LowerChar(s[i])]

\* the characters of str(n) for a natural number n
RECURSIVE NatToStr(_)
NatToStr(n) ==
    IF n < 10 THEN <<DigitChars[n + 1]>>
    ELSE Append(NatToStr(n \div 10), DigitChars[(n % 10) + 1])

\* the value of a sequence of decimal digits
RECURSIVE DigitsToNat(_)
DigitsToNat(s) ==
    IF Len(s) = 0 THEN 0
    ELSE 10 * DigitsToNat(SubSeq(s, 1, Len(s) - 1)) + DigitValue(s[Len(s)])

\* str.strip(): leading and trailing blanks removed
RECURSIVE Strip(_)
Strip(s) ==
    IF Len(s) = 0 THEN s
    ELSE IF s[1] = " " THEN Strip(Tail(s))
    ELSE IF s[Len(s)] = " " THEN Strip(SubSeq(s, 1, Len(s) - 1))
    ELSE s

\* the field lookup __icontains on characters: needle occurs in hay, letter
\* case ignored
IContains(hay, needle) ==
    LET h == Lower(hay)
        n == Lower(needle)
    IN  \E i \in 1..(Len(h) + 1) :
            /\ i + Len(n) - 1 <= Len(h)
            /\ SubSeq(h, i, i + Len(n) - 1) = n

\* The values request.data.get('quantity') can be: None (absent), a JSON
\* integer, a string (form data or a JSON string), a JSON array of n elements.
PyNone == [type |-> "none", n |-> 0, s |-> ""]
PyInt(n) == [type |-> "int", n |-> n, s |-> ""]
PyStr(s) == [type |-> "str", n |-> 0, s |-> s]
PyList(n) == [type |-> "list", n |-> n, s |-> ""]

\* Python truthiness: `not quantity` is the negation of this
Truthy(v) ==
    CASE v.type = "none" -> FALSE
      [] v.type = "int" -> v.n # 0
      [] v.type = "str" -> v.s # ""
      [] v.type = "list" -> v.n > 0

\* int(str): blanks stripped, an optional sign, then one or more digits;
\* anything else raises ValueError
IntOfStr(s) ==
    LET t == Strip(Chars(s))
        signed == Len(t) > 0 /\ t[1] \in {"+", "-"}
        digits == IF signed THEN Tail(t) ELSE t
    IN  IF Len(digits) > 0 /\ \A i \in 1..Len(digits) : IsDigit(digits[i])
        THEN [raised |-> "", n |-> IF signed /\ t[1] = "-"
                                     THEN 0 - DigitsToNat(digits)
                                     ELSE DigitsToNat(digits)]
        ELSE [raised |-> "ValueError", n |-> 0]

\* int(v) as create_order calls it: an integer is itself, a string is
\* parsed, a list raises TypeError
PyIntOf(v) ==
    CASE v.type = "int" -> [raised |-> "", n |-> v.n]
      [] v.type = "str" -> IntOfStr(v.s)
      [] OTHER -> [raised |-> "TypeError", n |-> 0]

(***************************************************************************)
(* Responses.  An exception no handler catches leaves the view and the     *)
(* framework answers 500; its name is the message.                         *)
(***************************************************************************)
Response(status, message) == [status |-> status, message |-> message]
NoResponse == Response(0, "")
Http404 == Response(404, "Not found")
ServerError(exception) == Response(500, exception)

(***************************************************************************)
(* The fields of a Product (src/products/models.py) that the handlers      *)
(* read or write.  price is in cents (DecimalField with decimal_places 2). *)
(***************************************************************************)
CATEGORY_CHOICES ==
    {"pants", "t-shirts", "shoes", "jerseys", "dresses", "socks", "shorts"}

ProductFields == {"name", "price", "stock_quantity", "category"}

\* Inputs of the requests.  `given` names the fields the request supplies.
ValidProduct ==
    [name |-> "Tee", price |-> 1999, stock_quantity |-> 2,
     category |-> "shoes", given |-> ProductFields]
ProductInputs ==
    { ValidProduct,
      [ValidProduct EXCEPT !.name = ""],
      [ValidProduct EXCEPT !.category = "hat"],
      [ValidProduct EXCEPT !.stock_quantity = -1],
      [ValidProduct EXCEPT !.stock_quantity = 101] }
UpdateInputs ==
    { [ValidProduct EXCEPT !.stock_quantity = 1],
      [ValidProduct EXCEPT !.stock_quantity = 101] }
PartialInputs ==
    { [ValidProduct EXCEPT !.given = {"stock_quantity"}, !.stock_quantity = 1],
      [ValidProduct EXCEPT !.given = {"stock_quantity"}, !.stock_quantity = -1] }

QuantityInputs ==
    { PyNone, PyInt(0), PyInt(1), PyInt(-1),
      PyStr(""), PyStr("0"), PyStr(" 1"), PyStr("x"), PyStr("1.5"),
      PyList(0), PyList(1) }

\* int(quantity) of line 134 for every quantity of the requests
IntOfQuantity == [v \in QuantityInputs |-> PyIntOf(v)]

\* the quantities that pass `not quantity` and int(): lines 131-137 answer
\* no 400 for them
IntegerQuantities ==
    {v \in QuantityInputs : Truthy(v) /\ IntOfQuantity[v].raised = ""}

\* query parameters ?search= and ?price= ; an absent parameter and an empty
\* one are both falsy
NoPrice == [given |-> FALSE, cents |-> 0]
PriceParam(c) == [given |-> TRUE, cents |-> c]
NoQuery == [search |-> "", price |-> NoPrice]
QueryParams ==
    { NoQuery,
      [search |-> "tE", price |-> PriceParam(5000)],
      [search |-> "2", price |-> NoPrice],
      [search |-> "", price |-> PriceParam(1000)] }

ReviewTexts == {"fine", "poor"}
OrderQuantityInputs == {-1, 0, 1}

VARIABLES
    products,          \* the rows of Product
    next_product_id,   \* the next primary key of Product
    orders,            \* the rows of Order
    next_order_id,     \* the next primary key of Order
    reviews,           \* the rows of Review
    next_review_id,    \* the next primary key of Review
    db_check,          \* whether the database enforces the CHECK (>= 0) of a
                       \* PositiveIntegerField (a property of the backend)
    rates,             \* the rows of Rate
    next_rate_id,      \* the next primary key of Rate
    users,             \* the rows of CustomUser
    tokens,            \* the rows of Token (rest_framework.authtoken)
    next_token_key,    \* the key of the next Token
    pc,                \* where each request slot is in create_order
    call,              \* the local variables of a create_order in progress
    resp               \* the last response the server sent

\* the Rate table and the tables of the accounts
ratings == <<rates, next_rate_id>>
accounts == <<users, tokens, next_token_key>>

vars == <<products, next_product_id, orders, next_order_id, reviews,
          next_review_id, db_check, ratings, accounts, pc, call, resp>>

db == <<products, next_product_id, orders, next_order_id, reviews,
        next_review_id, db_check, ratings, accounts>>

NoProduct ==
    [id |-> 0, user |-> "", name |-> "", price |-> 0, stock_quantity |-> 0,
     category |-> ""]
NoCall == [user |-> "", quantity |-> 0, product |-> NoProduct]

\* the account of a user: CustomUser.username, .email and the password
\* set_password stored
UserRow(u) == [username |-> u, email |-> u, password |-> "pw"]

Init ==
    /\ products = {}
    /\ next_product_id = 1
    /\ orders = {}
    /\ next_order_id = 1
    /\ reviews = {}
    /\ next_review_id = 1
    /\ db_check \in BOOLEAN
    /\ rates = {}
    /\ next_rate_id = 1
    /\ users = {UserRow(u) : u \in Users}
    /\ tokens = {}
    /\ next_token_key = 1
    /\ pc = [r \in Procs |-> "idle"]
    /\ call = [r \in Procs |-> NoCall]
    /\ resp = NoResponse

\* a request slot in create_order answers and is free again
Respond(r, response) ==
    /\ resp' = response
    /\ pc' = [pc EXCEPT ![r] = "idle"]
    /\ call' = [call EXCEPT ![r] = NoCall]

\* a request that is served in one step needs a free request slot
IdleWorker == \E r \in Procs : pc[r] = "idle"

Answer(response) ==
    /\ resp' = response
    /\ UNCHANGED <<pc, call>>

\* the primary keys still free for the orders of the model, one kept for
\* every create_order in progress
OrderIdFree ==
    next_order_id + Cardinality({q \in Procs : pc[q] # "idle"}) <= MaxOrders

(***************************************************************************)
(* Queries.                                                                *)
(***************************************************************************)
\* the row a foreign key to CustomUser needs
UserExists(username) == \E u \in users : u.username = username

\* get_object_or_404(Product, pk=pk): the rows with that primary key
ProductByPk(pk) == {p \in products : p.id = pk}

\* ProductViewSet.get_queryset: all products, narrowed by ?search= and
\* ?price=
get_queryset(query) ==
    LET searched ==
            IF query.search # ""
            THEN {p \in products :
                    \/ IContains(Chars(p.name), Chars(query.search))
                    \/ IContains(Chars(p.category), Chars(query.search))
                    \/ IContains(NatToStr(p.stock_quantity), Chars(query.search))}
            ELSE products
    IN  IF query.price.given
        THEN {p \in searched : p.price <= query.price.cents}
        ELSE searched

\* Order.objects.get(user=user, product=product): the matching rows
OrdersOf(user, pk) == {o \in orders : o.user = user /\ o.product = pk}

(***************************************************************************)
(* ProductSerializer: the field validators.                                *)
(***************************************************************************)
validate_name(value) == value # ""
validate_price(value) == 0 <= value /\ value <= 100000
validate_stock_quantity(value) == 0 <= value /\ value <= 100
validate_category(value) == value # ""

\* DecimalField(max_digits=5, decimal_places=2): at most three digits
\* before the decimal point
PriceFieldValid(value) == value > -100000 /\ value < 100000

\* PositiveIntegerField: the serializer field has min_value 0
PositiveIntegerFieldValid(value) == value >= 0

\* the field's own validation, then the serializer's validate_<field>
ProductFieldValid(field, data) ==
    CASE field = "name" -> validate_name(data.name)
      [] field = "price" ->
            PriceFieldValid(data.price) /\ validate_price(data.price)
      [] field = "stock_quantity" ->
            /\ PositiveIntegerFieldValid(data.stock_quantity)
            /\ validate_stock_quantity(data.stock_quantity)
      [] field = "category" ->
            data.category \in CATEGORY_CHOICES /\ validate_category(data.category)

\* ProductSerializer.is_valid: every field is required unless partial
ProductSerializerValid(data, partial) ==
    /\ partial \/ data.given = ProductFields
    /\ \A f \in data.given : ProductFieldValid(f, data)

\* the instance with the supplied fields written
ProductUpdated(instance, data) ==
    [id |-> instance.id,
     user |-> instance.user,
     name |-> IF "name" \in data.given THEN data.name ELSE instance.name,
     price |-> IF "price" \in data.given THEN data.price ELSE instance.price,
     stock_quantity |-> IF "stock_quantity" \in data.given
                        THEN data.stock_quantity ELSE instance.stock_quantity,
     category |-> IF "category" \in data.given
                  THEN data.category ELSE instance.category]

(***************************************************************************)
(* ProductViewSet.                                                         *)
(***************************************************************************)
\* POST /products/
ProductViewSet_create(user, data) ==
    /\ IdleWorker
    /\ IF ~ProductSerializerValid(data, FALSE)
       THEN /\ Answer(Response(400, "invalid"))
            /\ UNCHANGED db
       ELSE /\ next_product_id <= MaxProducts
            /\ products' = products \cup
                 {[id |-> next_product_id, user |-> user, name |-> data.name,
                   price |-> data.price,
                   stock_quantity |-> data.stock_quantity,
                   category |-> data.category]}
            /\ next_product_id' = next_product_id + 1
            /\ Answer(Response(201, "Product(s) uploaded successfully!"))
            /\ UNCHANGED <<orders, next_order_id, reviews, next_review_id,
                           db_check, ratings, accounts>>

\* a view without the ownership check
NotOwner_unchecked(instance, user) == FALSE

\* the ownership check `instance.user != request.user`
NotOwner(instance, user) == instance.user # user

\* the rows a product or review handler reads and writes
Rows ==
    [products |-> products, orders |-> orders, reviews |-> reviews,
     rates |-> rates]

\* what a handler that runs in one step does: the response it returns and
\* the rows it leaves
Outcome(response, rows) == [response |-> response, rows |-> rows]

Served(outcome) ==
    /\ IdleWorker
    /\ Answer(outcome.response)
    /\ products' = outcome.rows.products
    /\ orders' = outcome.rows.orders
    /\ reviews' = outcome.rows.reviews
    /\ rates' = outcome.rows.rates
    /\ UNCHANGED <<next_product_id, next_order_id, next_review_id, db_check,
                   next_rate_id, accounts>>

\* update (PUT) and partial_update (PATCH) differ in `partial` and in the
\* message of success
ProductWrite(user, pk, query, data, partial, done) ==
    LET found == {p \in get_queryset(query) : p.id = pk}
        instance == CHOOSE p \in found : TRUE
    IN  IF found = {}
        THEN Outcome(Http404, Rows)
        ELSE IF NotOwner(instance, user)
        THEN Outcome(Response(403,
                 "You do not have permission to edit this product(s)."), Rows)
        ELSE IF ~ProductSerializerValid(data, partial)
        THEN Outcome(Response(400, "invalid"), Rows)
        ELSE Outcome(Response(200, done),
                 [Rows EXCEPT !.products = (products \ {instance})
                                  \cup {ProductUpdated(instance, data)}])

\* PUT /products/{pk}/
ProductViewSet_update(user, pk, query, data) ==
    ProductWrite(user, pk, query, data, FALSE, "Product updated successfully!")

\* PATCH /products/{pk}/
ProductViewSet_partial_update(user, pk, query, data) ==
    ProductWrite(user, pk, query, data, TRUE, "Product partially updated!")

\* DELETE /products/{pk}/ ; the rows that reference the product go with it
\* (on_delete=CASCADE)
ProductViewSet_destroy(user, pk, query) ==
    LET found == {p \in get_queryset(query) : p.id = pk}
        instance == CHOOSE p \in found : TRUE
    IN  IF found = {}
        THEN Outcome(Http404, Rows)
        ELSE IF NotOwner(instance, user)
        THEN Outcome(Response(403,
                 "You do not have permission to delete this product(s)"), Rows)
        ELSE Outcome(Response(204, "Product(s) deleted successfully!"),
                 [products |-> products \ {instance},
                  orders |-> {o \in orders : o.product # pk},
                  reviews |-> {v \in reviews : v.product # pk},
                  rates |-> {t \in rates : t.product # pk}])

(***************************************************************************)
(* OrderViewSet.create_order: POST /orders/{pk}/create-order/.  The view   *)
(* opens no transaction and takes no lock, so each query is a step of its  *)
(* own and the steps of two requests interleave.                           *)
(***************************************************************************)
\* a create_order without the stock check
NotEnoughStock_unchecked(product, quantity) == FALSE

\* a stock check that is off by one
NotEnoughStock_lenient(product, quantity) ==
    product.stock_quantity + 1 < quantity

\* the check `product_to_order.stock_quantity < quantity` of line 140
NotEnoughStock(product, quantity) == product.stock_quantity < quantity

\* a create_order that leaves the stock as it is
StockAfterOrder_kept(product, quantity) == product.stock_quantity

\* line 144: product_to_order.stock_quantity -= quantity
StockAfterOrder(product, quantity) == product.stock_quantity - quantity

\* lines 128-141: load the product, read and parse the quantity, check the
\* stock
create_order_load(r, user, pk, quantity) ==
    /\ pc[r] = "idle"
    /\ IF ProductByPk(pk) = {}
       THEN Respond(r, Http404)
       ELSE LET product_to_order == CHOOSE p \in ProductByPk(pk) : TRUE
                parsed == IntOfQuantity[quantity]
            IN  IF ~Truthy(quantity)
                THEN Respond(r, Response(400, "Quantity is required"))
                ELSE IF parsed.raised = "ValueError"
                THEN Respond(r, Response(400, "Invalid quantity value"))
                ELSE IF parsed.raised # ""
                THEN Respond(r, ServerError(parsed.raised))
                ELSE IF NotEnoughStock(product_to_order, parsed.n)
                THEN Respond(r, Response(400, "Not enough stock available"))
                ELSE /\ StockAfterOrder(product_to_order, parsed.n) <= MaxStock
                     /\ OrderIdFree
                     /\ pc' = [pc EXCEPT ![r] = "save"]
                     /\ call' = [call EXCEPT ![r] =
                            [user |-> user, quantity |-> parsed.n,
                             product |-> product_to_order]]
                     /\ UNCHANGED resp
    /\ UNCHANGED db

\* lines 144-145: product_to_order.stock_quantity -= quantity; save().  save
\* writes every field of the instance: an UPDATE of the row, or an INSERT when
\* no row has the primary key any more.
create_order_save(r) ==
    /\ pc[r] = "save"
    /\ LET product == call[r].product
           saved == [product EXCEPT
                       !.stock_quantity = StockAfterOrder(product, call[r].quantity)]
       IN  IF \/ db_check /\ saved.stock_quantity < 0
              \/ ProductByPk(product.id) = {} /\ ~UserExists(product.user)
           THEN /\ Respond(r, ServerError("IntegrityError"))
                /\ UNCHANGED db
           ELSE /\ products' = {p \in products : p.id # product.id} \cup {saved}
                /\ pc' = [pc EXCEPT ![r] = "get"]
                /\ call' = [call EXCEPT ![r].product = saved]
                /\ UNCHANGED <<resp, next_product_id, orders, next_order_id,
                               reviews, next_review_id, db_check, ratings, accounts>>

\* line 148, the get of get_or_create
create_order_get(r) ==
    /\ pc[r] = "get"
    /\ LET found == OrdersOf(call[r].user, call[r].product.id)
       IN  IF Cardinality(found) = 1
           THEN Respond(r, Response(400, "Order already exists"))
           ELSE IF Cardinality(found) > 1
           THEN Respond(r, ServerError("MultipleObjectsReturned"))
           ELSE /\ pc' = [pc EXCEPT ![r] = "create"]
                /\ UNCHANGED <<call, resp>>
    /\ UNCHANGED db

\* an INSERT the database accepts whatever it references
InsertAccepted_unchecked(user, product_id, quantity) == TRUE

\* the INSERT the database accepts: the user row and the product row exist
\* (foreign keys) and, where the backend checks it, the quantity is not
\* negative
InsertAccepted(user, product_id, quantity) ==
    /\ UserExists(user)
    /\ ProductByPk(product_id) # {}
    /\ db_check => quantity >= 0

\* lines 148-157, the create of get_or_create: INSERT; on IntegrityError the
\* get is tried once more and the error raised again if it finds nothing
create_order_create(r) ==
    /\ pc[r] = "create"
    /\ LET found == OrdersOf(call[r].user, call[r].product.id)
       IN  IF InsertAccepted(call[r].user, call[r].product.id, call[r].quantity)
           THEN /\ orders' = orders \cup
                      {[id |-> next_order_id, user |-> call[r].user,
                        product |-> call[r].product.id,
                        quantity |-> call[r].quantity]}
                /\ next_order_id' = next_order_id + 1
                /\ Respond(r, Response(201, "Order successful"))
                /\ UNCHANGED <<products, next_product_id, reviews,
                               next_review_id, db_check, ratings, accounts>>
           ELSE /\ IF Cardinality(found) = 1
                   THEN Respond(r, Response(400, "Order already exists"))
                   ELSE IF Cardinality(found) > 1
                   THEN Respond(r, ServerError("MultipleObjectsReturned"))
                   ELSE Respond(r, ServerError("IntegrityError"))
                /\ UNCHANGED db

create_order(r) ==
    \/ \E u \in Users, pk \in ProductIds, q \in QuantityInputs :
           create_order_load(r, u, pk, q)
    \/ create_order_save(r)
    \/ create_order_get(r)
    \/ create_order_create(r)

(***************************************************************************)
(* OrderViewSet: the class sets no queryset, so self.queryset is None.     *)
(***************************************************************************)
NoQuerySet == [model |-> "None"]
OrderViewSet_queryset == NoQuerySet

QuerySetRows(queryset) == IF queryset.model = "Order" THEN orders ELSE {}

\* django.shortcuts.get_object_or_404(klass, pk=pk, user=user): ValueError
\* when klass is no model, manager or queryset; Http404 when no row matches
get_object_or_404(queryset, pk, user) ==
    IF queryset.model = "None"
    THEN [raised |-> "ValueError", rows |-> {}]
    ELSE LET found == {o \in QuerySetRows(queryset) : o.id = pk /\ o.user = user}
         IN  IF found = {} THEN [raised |-> "Http404", rows |-> {}]
             ELSE [raised |-> "", rows |-> found]

RaisedResponse(raised) ==
    IF raised = "Http404" THEN Http404 ELSE ServerError(raised)

\* OrderSerializer.is_valid: product and user are primary keys of rows that
\* exist, quantity is an integer of a PositiveIntegerField
OrderSerializerValid(data) ==
    /\ ProductByPk(data.product) # {}
    /\ UserExists(data.user)
    /\ PositiveIntegerFieldValid(data.quantity)

\* POST /orders/ : ModelViewSet.create with OrderSerializer, whose fields
\* product, quantity and user are all written from the request
OrderViewSet_create(user, data) ==
    /\ IdleWorker
    /\ IF ~OrderSerializerValid(data)
       THEN Answer(Response(400, "invalid")) /\ UNCHANGED db
       ELSE /\ OrderIdFree
            /\ orders' = orders \cup
                 {[id |-> next_order_id, user |-> data.user,
                   product |-> data.product, quantity |-> data.quantity]}
            /\ next_order_id' = next_order_id + 1
            /\ Answer(Response(201, "created"))
            /\ UNCHANGED <<products, next_product_id, reviews, next_review_id,
                           db_check, ratings, accounts>>

\* GET /orders/{pk}/
OrderViewSet_retrieve(user, pk) ==
    /\ IdleWorker
    /\ LET got == get_object_or_404(OrderViewSet_queryset, pk, user)
       IN  IF got.raised # ""
           THEN Answer(RaisedResponse(got.raised))
           ELSE Answer(Response(200, "order"))
    /\ UNCHANGED db

\* PUT and PATCH /orders/{pk}/
OrderWrite(user, pk, data, done) ==
    /\ IdleWorker
    /\ LET got == get_object_or_404(OrderViewSet_queryset, pk, user)
       IN  IF got.raised # ""
           THEN Answer(RaisedResponse(got.raised)) /\ UNCHANGED db
           ELSE IF ~OrderSerializerValid(data)
           THEN Answer(Response(400, "invalid")) /\ UNCHANGED db
           ELSE /\ orders' = (orders \ got.rows) \cup
                      {[id |-> pk, user |-> data.user, product |-> data.product,
                        quantity |-> data.quantity]}
                /\ Answer(Response(200, done))
                /\ UNCHANGED <<products, next_product_id, next_order_id,
                               reviews, next_review_id, db_check, ratings, accounts>>

OrderViewSet_update(user, pk, data) ==
    OrderWrite(user, pk, data, "Order updated successfully!")

OrderViewSet_partial_update(user, pk, data) ==
    OrderWrite(user, pk, data, "Order partially updated!")

\* DELETE /orders/{pk}/
OrderViewSet_destroy(user, pk) ==
    /\ IdleWorker
    /\ LET got == get_object_or_404(OrderViewSet_queryset, pk, user)
       IN  IF got.raised # ""
           THEN Answer(RaisedResponse(got.raised)) /\ UNCHANGED db
           ELSE /\ orders' = orders \ got.rows
                /\ Answer(Response(204, "Order deleted successfully!"))
                /\ UNCHANGED <<products, next_product_id, next_order_id,
                               reviews, next_review_id, db_check, ratings, accounts>>

OrderInputs == [product : ProductIds, quantity : OrderQuantityInputs, user : Users]

(***************************************************************************)
(* ReviewViewSet.                                                          *)
(***************************************************************************)
\* Review.objects.create(...): a row stored through the ORM (the admin site,
\* a fixture), the only way a Review row with a user comes to exist
Review_objects_create(user, product, text) ==
    /\ next_review_id <= MaxReviews
    /\ UserExists(user)
    /\ ProductByPk(product) # {}
    /\ reviews' = reviews \cup
         {[id |-> next_review_id, user |-> user, product |-> product,
           review |-> text]}
    /\ next_review_id' = next_review_id + 1
    /\ UNCHANGED <<products, next_product_id, orders, next_order_id, db_check,
                   ratings, accounts,
                   pc, call, resp>>

\* ReviewSerializer.is_valid: product is the primary key of a row that exists
ReviewSerializerValid(data) ==
    "product" \in data.given => ProductByPk(data.product) # {}

\* POST /reviews/ : ReviewSerializer has no user field and the view passes
\* none to save(), so the INSERT has user_id NULL
ReviewViewSet_create(user, data) ==
    /\ IdleWorker
    /\ IF ~(data.given = {"product", "review"} /\ ReviewSerializerValid(data))
       THEN Answer(Response(400, "invalid"))
       ELSE Answer(ServerError("IntegrityError"))
    /\ UNCHANGED db

ReviewWrite(user, pk, data, partial, done) ==
    LET found == {v \in reviews : v.id = pk}
        instance == CHOOSE v \in found : TRUE
    IN  IF found = {}
        THEN Outcome(Http404, Rows)
        ELSE IF NotOwner(instance, user)
        THEN Outcome(Response(403,
                 "You do not have permission to edit this review."), Rows)
        ELSE IF ~(/\ partial \/ "product" \in data.given
                  /\ ReviewSerializerValid(data))
        THEN Outcome(Response(400, "invalid"), Rows)
        ELSE Outcome(Response(200, done),
                 [Rows EXCEPT !.reviews = (reviews \ {instance}) \cup
                     {[id |-> instance.id, user |-> instance.user,
                       product |-> IF "product" \in data.given
                                   THEN data.product ELSE instance.product,
                       review |-> IF "review" \in data.given
                                  THEN data.review ELSE instance.review]}])

\* PUT /reviews/{pk}/
ReviewViewSet_update(user, pk, data) ==
    ReviewWrite(user, pk, data, FALSE, "Review updated successfully!")

\* PATCH /reviews/{pk}/
ReviewViewSet_partial_update(user, pk, data) ==
    ReviewWrite(user, pk, data, TRUE, "Review partially updated!")

\* DELETE /reviews/{pk}/
ReviewViewSet_destroy(user, pk) ==
    LET found == {v \in reviews : v.id = pk}
        instance == CHOOSE v \in found : TRUE
    IN  IF found = {}
        THEN Outcome(Http404, Rows)
        ELSE IF NotOwner(instance, user)
        THEN Outcome(Response(403,
                 "You do not have permission to delete this review."), Rows)
        ELSE Outcome(Response(204, "Review deleted successfully!"),
                 [Rows EXCEPT !.reviews = reviews \ {instance}])

ReviewInputs ==
    { [product |-> 1, review |-> "poor", given |-> {"product", "review"}],
      [product |-> 2, review |-> "fine", given |-> {"product", "review"}] }
ReviewPartialInputs ==
    { [product |-> 1, review |-> "poor", given |-> {"review"}],
      [product |-> 1, review |-> "fine", given |-> {}] }

(***************************************************************************)
(* RateViewset: a ModelViewSet with no method of its own but               *)
(* get_permissions.  RateSerializer lists user, product and rating, all    *)
(* writable; no action compares the row's user with the caller.            *)
(***************************************************************************)
RateInputs ==
    { [user |-> "alice", product |-> 1, rating |-> 5,
       given |-> {"user", "product", "rating"}],
      [user |-> "bob", product |-> 1, rating |-> 6,
       given |-> {"user", "product", "rating"}] }
RatePartialInputs ==
    { [user |-> "alice", product |-> 1, rating |-> 0, given |-> {"rating"}] }

\* RateSerializer.validate_rating
validate_rating(value) == 0 <= value /\ value <= 5

\* RateSerializer.is_valid: user and product are primary keys of rows that
\* exist, the rating passes validate_rating
RateSerializerValid(data) ==
    /\ "user" \in data.given =>
           \E u \in users : u.username = data.user
    /\ "product" \in data.given => ProductByPk(data.product) # {}
    /\ "rating" \in data.given => validate_rating(data.rating)

\* POST /ratings/
RateViewset_create(user, data) ==
    /\ IdleWorker
    /\ IF ~(data.given = {"user", "product", "rating"}
                /\ RateSerializerValid(data))
       THEN Answer(Response(400, "invalid")) /\ UNCHANGED db
       ELSE /\ next_rate_id <= MaxRates
            /\ rates' = rates \cup
                 {[id |-> next_rate_id, user |-> data.user,
                   product |-> data.product, rating |-> data.rating]}
            /\ next_rate_id' = next_rate_id + 1
            /\ Answer(Response(201, "created"))
            /\ UNCHANGED <<products, next_product_id, orders, next_order_id,
                           reviews, next_review_id, db_check, accounts>>

RateWrite(user, pk, data, partial) ==
    LET found == {t \in rates : t.id = pk}
        instance == CHOOSE t \in found : TRUE
    IN  IF found = {}
        THEN Outcome(Http404, Rows)
        ELSE IF ~(/\ partial \/ data.given = {"user", "product", "rating"}
                  /\ RateSerializerValid(data))
        THEN Outcome(Response(400, "invalid"), Rows)
        ELSE Outcome(Response(200, "updated"),
                 [Rows EXCEPT !.rates = (rates \ {instance}) \cup
                     {[id |-> instance.id,
                       user |-> IF "user" \in data.given
                                THEN data.user ELSE instance.user,
                       product |-> IF "product" \in data.given
                                   THEN data.product ELSE instance.product,
                       rating |-> IF "rating" \in data.given
                                  THEN data.rating ELSE instance.rating]}])

\* PUT /ratings/{pk}/
RateViewset_update(user, pk, data) == RateWrite(user, pk, data, FALSE)

\* PATCH /ratings/{pk}/
RateViewset_partial_update(user, pk, data) == RateWrite(user, pk, data, TRUE)

\* DELETE /ratings/{pk}/
RateViewset_destroy(user, pk) ==
    LET found == {t \in rates : t.id = pk}
    IN  IF found = {}
        THEN Outcome(Http404, Rows)
        ELSE Outcome(Response(204, "deleted"),
                 [Rows EXCEPT !.rates = rates \ found])

(***************************************************************************)
(* The read-only actions, which ModelViewSet supplies.                     *)
(***************************************************************************)
Listed == Answer(Response(200, "list")) /\ UNCHANGED db

Retrieved(found) ==
    /\ IF found = {} THEN Answer(Http404) ELSE Answer(Response(200, "detail"))
    /\ UNCHANGED db

\* GET /products/ and GET /products/{pk}/
ProductViewSet_list(query) == IdleWorker /\ Listed
ProductViewSet_retrieve(pk, query) ==
    IdleWorker /\ Retrieved({p \in get_queryset(query) : p.id = pk})

\* GET /orders/ : GenericAPIView.get_queryset asserts that the view has a
\* queryset
OrderViewSet_list ==
    /\ IdleWorker
    /\ IF OrderViewSet_queryset = NoQuerySet
       THEN Answer(ServerError("AssertionError")) /\ UNCHANGED db
       ELSE Listed

\* GET /reviews/ and GET /reviews/{pk}/
ReviewViewSet_list == IdleWorker /\ Listed
ReviewViewSet_retrieve(pk) ==
    IdleWorker /\ Retrieved({v \in reviews : v.id = pk})

\* GET /ratings/ and GET /ratings/{pk}/
RateViewset_list == IdleWorker /\ Listed
RateViewset_retrieve(pk) == IdleWorker /\ Retrieved({t \in rates : t.id = pk})

(***************************************************************************)
(* Permissions.  A request without valid credentials is served as          *)
(* AnonymousUser; the view's permission classes are asked before the       *)
(* handler runs.                                                           *)
(***************************************************************************)
AnonymousUser == "AnonymousUser"

Views == {"products", "orders", "reviews", "ratings"}
ReadActions == {"list", "retrieve"}
WriteActions == {"create", "update", "partial_update", "destroy"}
ActionsOf(view) ==
    ReadActions \cup WriteActions
        \cup (IF view = "orders" THEN {"create_order"} ELSE {})

\* a gate that lets every caller through
IsAuthenticated_open(user) == TRUE

\* permissions.IsAuthenticated.has_permission
IsAuthenticated(user) == user # AnonymousUser

\* get_permissions of ProductViewSet, ReviewViewSet and RateViewset;
\* permission_classes of OrderViewSet
get_permissions(view, action) ==
    IF view = "orders"
    THEN "IsAuthenticated"
    ELSE IF action \in {"list", "retrieve"}
    THEN "AllowAny"
    ELSE "IsAuthenticated"

\* APIView.check_permissions
has_permission(view, action, user) ==
    get_permissions(view, action) = "IsAuthenticated" => IsAuthenticated(user)

\* APIView.permission_denied for a request without credentials: 401 when the
\* first authentication class of the settings names a WWW-Authenticate
\* scheme, 403 when it does not
NotAuthenticated ==
    /\ IdleWorker
    /\ \E code \in {401, 403} :
           Answer(Response(code, "Authentication credentials were not provided."))
    /\ UNCHANGED db

\* the handler of the action
Handler(view, action, user) ==
    \/ /\ view = "products"
       /\ \/ action = "list" /\ \E q \in QueryParams : ProductViewSet_list(q)
          \/ /\ action = "retrieve"
             /\ \E pk \in ProductIds, q \in QueryParams :
                    ProductViewSet_retrieve(pk, q)
          \/ /\ action = "create"
             /\ \E d \in ProductInputs : ProductViewSet_create(user, d)
          \/ /\ action = "update"
             /\ \E pk \in ProductIds, q \in QueryParams, d \in UpdateInputs :
                    Served(ProductViewSet_update(user, pk, q, d))
          \/ /\ action = "partial_update"
             /\ \E pk \in ProductIds, q \in QueryParams, d \in PartialInputs :
                    Served(ProductViewSet_partial_update(user, pk, q, d))
          \/ /\ action = "destroy"
             /\ \E pk \in ProductIds, q \in QueryParams :
                    Served(ProductViewSet_destroy(user, pk, q))
    \/ /\ view = "orders"
       /\ \/ action = "list" /\ OrderViewSet_list
          \/ /\ action = "retrieve"
             /\ \E pk \in OrderIds : OrderViewSet_retrieve(user, pk)
          \/ /\ action = "create"
             /\ \E d \in OrderInputs : OrderViewSet_create(user, d)
          \/ /\ action = "update"
             /\ \E pk \in OrderIds, d \in OrderInputs :
                    OrderViewSet_update(user, pk, d)
          \/ /\ action = "partial_update"
             /\ \E pk \in OrderIds, d \in OrderInputs :
                    OrderViewSet_partial_update(user, pk, d)
          \/ /\ action = "destroy"
             /\ \E pk \in OrderIds : OrderViewSet_destroy(user, pk)
          \/ /\ action = "create_order"
             /\ \E r \in Procs, pk \in ProductIds, q \in QuantityInputs :
                    create_order_load(r, user, pk, q)
    \/ /\ view = "reviews"
       /\ \/ action = "list" /\ ReviewViewSet_list
          \/ /\ action = "retrieve"
             /\ \E pk \in ReviewIds : ReviewViewSet_retrieve(pk)
          \/ /\ action = "create"
             /\ \E d \in ReviewInputs : ReviewViewSet_create(user, d)
          \/ /\ action = "update"
             /\ \E pk \in ReviewIds, d \in ReviewInputs :
                    Served(ReviewViewSet_update(user, pk, d))
          \/ /\ action = "partial_update"
             /\ \E pk \in ReviewIds, d \in ReviewPartialInputs :
                    Served(ReviewViewSet_partial_update(user, pk, d))
          \/ /\ action = "destroy"
             /\ \E pk \in ReviewIds : Served(ReviewViewSet_destroy(user, pk))
    \/ /\ view = "ratings"
       /\ \/ action = "list" /\ RateViewset_list
          \/ /\ action = "retrieve"
             /\ \E pk \in RateIds : RateViewset_retrieve(pk)
          \/ /\ action = "create"
             /\ \E d \in RateInputs : RateViewset_create(user, d)
          \/ /\ action = "update"
             /\ \E pk \in RateIds, d \in RateInputs :
                    Served(RateViewset_update(user, pk, d))
          \/ /\ action = "partial_update"
             /\ \E pk \in RateIds, d \in RatePartialInputs :
                    Served(RateViewset_partial_update(user, pk, d))
          \/ /\ action = "destroy"
             /\ \E pk \in RateIds : Served(RateViewset_destroy(user, pk))

\* APIView.dispatch: the permission check, then the handler
Request(view, action, user) ==
    IF has_permission(view, action, user)
    THEN Handler(view, action, user)
    ELSE NotAuthenticated

(***************************************************************************)
(* The accounts (src/users): register, login, logout, delete_account.      *)
(***************************************************************************)
\* the usernames of the requests: the accounts of Init and one more
Usernames == Users \cup {"carol"}

RegisterInputs ==
    { [username |-> "carol", email |-> "carol", password |-> "pw",
       password_2 |-> "pw"],
      [username |-> "carol", email |-> "carol", password |-> "pw",
       password_2 |-> "pw2"],
      [username |-> "carol", email |-> "alice", password |-> "pw",
       password_2 |-> "pw"],
      [username |-> "alice", email |-> "carol", password |-> "pw",
       password_2 |-> "pw2"],
      [username |-> "bob", email |-> "bob", password |-> "pw2",
       password_2 |-> "pw2"] }

Passwords == {"pw", "pw2"}

\* the UniqueValidator a ModelSerializer gives the unique fields username and
\* email of CustomUser
UniqueFieldsValid(data) ==
    /\ ~\E u \in users : u.username = data.username
    /\ ~\E u \in users : u.email = data.email

\* a validate that lets every pair of passwords through
PasswordsMatch_any(data) == TRUE

\* RegisterSerializer.validate: line 36
PasswordsMatch(data) == data.password = data.password_2

\* POST register/ ; RegisterSerializer.is_valid runs the field validators
\* and, when they pass, validate(); RegisterSerializer.create stores the user
\* with the password of the request
register(data) ==
    /\ IdleWorker
    /\ IF ~UniqueFieldsValid(data)
       THEN Answer(Response(400, "invalid")) /\ UNCHANGED db
       ELSE IF ~PasswordsMatch(data)
       THEN Answer(Response(400, "Passwords must match.")) /\ UNCHANGED db
       ELSE /\ users' = users \cup
                 {[username |-> data.username, email |-> data.email,
                   password |-> data.password]}
            /\ Answer(Response(201, "created"))
            /\ UNCHANGED <<products, next_product_id, orders, next_order_id,
                           reviews, next_review_id, db_check, ratings, tokens,
                           next_token_key>>

\* authenticate(username=..., password=...): the user, if there is one
authenticate(username, password) ==
    {u \in users : u.username = username /\ u.password = password}

\* a lookup that never finds the token
TokensOf_none(username) == {}

\* Token.objects.get(user=user): Token.user is a OneToOneField
TokensOf(username) == {t \in tokens : t.user = username}

\* the response of a login: LoginSerializer.to_representation
LoginResponse(key) ==
    [status |-> 200, message |-> "Login successful", token |-> key]

\* POST login/ : LoginSerializer.validate, then the get of
\* Token.objects.get_or_create(user=user)
login_validate(r, username, password) ==
    /\ pc[r] = "idle"
    /\ IF authenticate(username, password) = {}
       THEN Respond(r, Response(400, "Invalid username or password"))
       ELSE IF TokensOf(username) # {}
       THEN Respond(r, LoginResponse((CHOOSE t \in TokensOf(username) : TRUE).key))
       ELSE /\ pc' = [pc EXCEPT ![r] = "token_create"]
            /\ call' = [call EXCEPT ![r] = [NoCall EXCEPT !.user = username]]
            /\ UNCHANGED resp
    /\ UNCHANGED db

\* the create of get_or_create: INSERT; on IntegrityError (the user has a
\* token by now, or the user is gone) the get is tried once more and the
\* error raised again if it finds nothing.  The key is 20 random bytes,
\* modelled as a key never used before.
login_create(r) ==
    /\ pc[r] = "token_create"
    /\ LET username == call[r].user
       IN  IF \E u \in users : u.username = username
           THEN IF TokensOf(username) = {}
                THEN /\ next_token_key <= MaxTokens
                     /\ tokens' = tokens \cup
                            {[user |-> username, key |-> next_token_key]}
                     /\ next_token_key' = next_token_key + 1
                     /\ Respond(r, LoginResponse(next_token_key))
                     /\ UNCHANGED <<products, next_product_id, orders,
                                    next_order_id, reviews, next_review_id,
                                    db_check, ratings, users>>
                ELSE /\ Respond(r, LoginResponse(
                            (CHOOSE t \in TokensOf(username) : TRUE).key))
                     /\ UNCHANGED db
           ELSE Respond(r, ServerError("IntegrityError")) /\ UNCHANGED db

login(r) ==
    \/ \E u \in Usernames, pw \in Passwords : login_validate(r, u, pw)
    \/ login_create(r)

\* POST logout/ by an authenticated user: request.user.auth_token.delete()
LogoutAPIView_post(username) ==
    /\ IdleWorker
    /\ \E u \in users : u.username = username
    /\ IF TokensOf(username) = {}
       THEN Answer(Response(400, "Token does not exist")) /\ UNCHANGED db
       ELSE /\ tokens' = tokens \ TokensOf(username)
            /\ Answer(Response(200, "You have successfully logged out"))
            /\ UNCHANGED <<products, next_product_id, orders, next_order_id,
                           reviews, next_review_id, db_check, ratings, users,
                           next_token_key>>

\* DELETE delete_account/ by an authenticated user: instance.delete(), which
\* collects the rows that reference the user through on_delete=CASCADE, and
\* the rows that reference those, and deletes them in one transaction
AccountDeleteAPIView_destroy(username) ==
    /\ IdleWorker
    /\ \E u \in users : u.username = username
    /\ LET owned == {p.id : p \in {q \in products : q.user = username}}
           Kept(rows) ==
               {x \in rows : x.user # username /\ x.product \notin owned}
       IN  /\ users' = {u \in users : u.username # username}
           /\ tokens' = {t \in tokens : t.user # username}
           /\ products' = {p \in products : p.user # username}
           /\ orders' = Kept(orders)
           /\ reviews' = Kept(reviews)
           /\ rates' = Kept(rates)
    /\ Answer(Response(200, "Account deleted successfully"))
    /\ UNCHANGED <<next_product_id, next_order_id, next_review_id, db_check,
                   next_rate_id, next_token_key>>

(***************************************************************************)
(* The specifications.                                                     *)
(***************************************************************************)
ProductCreated ==
    \E u \in Users, d \in ProductInputs : ProductViewSet_create(u, d)

PlaceOrder == \E r \in Procs : create_order(r)

OrderRoutes ==
    \/ \E u \in Users, d \in OrderInputs : OrderViewSet_create(u, d)
    \/ \E u \in Users, pk \in OrderIds : OrderViewSet_retrieve(u, pk)
    \/ \E u \in Users, pk \in OrderIds, d \in OrderInputs :
           OrderViewSet_update(u, pk, d)
    \/ \E u \in Users, pk \in OrderIds, d \in OrderInputs :
           OrderViewSet_partial_update(u, pk, d)
    \/ \E u \in Users, pk \in OrderIds : OrderViewSet_destroy(u, pk)

ProductRoutes ==
    \/ \E u \in Users, pk \in ProductIds, q \in QueryParams, d \in UpdateInputs :
           Served(ProductViewSet_update(u, pk, q, d))
    \/ \E u \in Users, pk \in ProductIds, q \in QueryParams, d \in PartialInputs :
           Served(ProductViewSet_partial_update(u, pk, q, d))
    \/ \E u \in Users, pk \in ProductIds, q \in QueryParams :
           Served(ProductViewSet_destroy(u, pk, q))

ReviewRoutes ==
    \/ \E u \in Users, pk \in ProductIds, t \in ReviewTexts :
           Review_objects_create(u, pk, t)
    \/ \E u \in Users, d \in ReviewInputs : ReviewViewSet_create(u, d)
    \/ \E u \in Users, pk \in ReviewIds, d \in ReviewInputs :
           Served(ReviewViewSet_update(u, pk, d))
    \/ \E u \in Users, pk \in ReviewIds, d \in ReviewPartialInputs :
           Served(ReviewViewSet_partial_update(u, pk, d))
    \/ \E u \in Users, pk \in ReviewIds : Served(ReviewViewSet_destroy(u, pk))

\* The order workflow: products come to exist and orders are placed, by two
\* request slots at once.
Next ==
    \/ ProductCreated
    \/ PlaceOrder

Spec == Init /\ [][Next]_vars

\* The orders resource: the order workflow, one create_order at a time, and
\* the other routes of OrderViewSet.
NextOrderRoutes ==
    \/ ProductCreated
    \/ create_order("w1")
    \/ OrderRoutes

SpecOrderRoutes == Init /\ [][NextOrderRoutes]_vars

\* The owned resources: the routes of ProductViewSet and ReviewViewSet.
NextOwned ==
    \/ ProductCreated
    \/ ProductRoutes
    \/ ReviewRoutes

SpecOwned == Init /\ [][NextOwned]_vars
(***************************************************************************)
(* The properties.                                                         *)
(***************************************************************************)
StockIn(rows, pk) == (CHOOSE p \in rows : p.id = pk).stock_quantity

\* The gate: rows of every table come to exist through requests of alice,
\* and callers without credentials try every action of every view.
AnonymousRequest ==
    \E view \in Views : \E action \in ActionsOf(view) :
        Request(view, action, AnonymousUser)

NextGate ==
    \/ \E d \in ProductInputs : ProductViewSet_create("alice", d)
    \/ \E d \in OrderInputs : d.user = "alice" /\ OrderViewSet_create("alice", d)
    \/ \E pk \in ProductIds : Review_objects_create("alice", pk, "fine")
    \/ \E d \in RateInputs : RateViewset_create("alice", d)
    \/ AnonymousRequest

SpecGate == Init /\ [][NextGate]_vars

\* The accounts: users register, log in (two logins at once), log out and
\* delete their accounts.
NextUsers ==
    \/ \E d \in RegisterInputs : register(d)
    \/ \E r \in Procs : login(r)
    \/ \E u \in Usernames : LogoutAPIView_post(u)
    \/ \E u \in Usernames : AccountDeleteAPIView_destroy(u)

SpecUsers == Init /\ [][NextUsers]_vars

\* Deletion: users of accounts that exist fill the tables, place an order
\* step by step, delete their products and delete their accounts.
NextCascade ==
    \/ \E u \in Users : UserExists(u) /\ ProductViewSet_create(u, ValidProduct)
    \/ \E u \in Users, pk \in ProductIds, q \in {PyInt(1)} :
           UserExists(u) /\ create_order_load("w1", u, pk, q)
    \/ create_order_save("w1")
    \/ create_order_get("w1")
    \/ create_order_create("w1")
    \/ \E u \in Users, d \in OrderInputs :
           /\ UserExists(u)
           /\ d.user = u /\ d.quantity = 1
           /\ OrderViewSet_create(u, d)
    \/ \E u \in Users, pk \in ProductIds : Review_objects_create(u, pk, "fine")
    \/ \E u \in Users, d \in RateInputs :
           UserExists(u) /\ d.user = u /\ RateViewset_create(u, d)
    \/ \E u \in Users, pk \in ProductIds :
           UserExists(u) /\ Served(ProductViewSet_destroy(u, pk, NoQuery))
    \/ \E u \in Users : AccountDeleteAPIView_destroy(u)

SpecCascade == Init /\ [][NextCascade]_vars

\* The catalogue: alice creates and updates products with prices (in cents)
\* and stock quantities at, inside and outside the limits of the validators.
CatalogInputs ==
    { [ValidProduct EXCEPT !.price = c, !.stock_quantity = n] :
          c \in {-1, 0, 99999, 100000, 100001}, n \in {-1, 0, 100, 101} }

NextCatalog ==
    \/ \E d \in CatalogInputs : ProductViewSet_create("alice", d)
    \/ \E pk \in ProductIds, d \in CatalogInputs :
           Served(ProductViewSet_update("alice", pk, NoQuery, d))

SpecCatalog == Init /\ [][NextCatalog]_vars

Created == Response(201, "Order successful")
AlreadyExists == Response(400, "Order already exists")
InsufficientStock == Response(400, "Not enough stock available")

\* the steps of a create_order served by request slot r
Loaded(r) == pc[r] = "idle" /\ pc'[r] = "save"
Saved(r) == pc[r] = "save" /\ pc'[r] = "get"
Got(r) == pc[r] = "get" /\ pc'[r] # "get"
Inserted(r) == pc[r] = "create" /\ pc'[r] = "idle" /\ orders' # orders

\* C1: in every reachable state, whatever the interleaving of the
\* create_order calls, every product's stock_quantity is >= 0.
C1_StockNeverNegative == \A p \in products : p.stock_quantity >= 0

\* orders have emptied a product's stock
C1_Witness ==
    /\ resp = Created
    /\ \E p \in products :
          /\ p.stock_quantity = 0
          /\ \E o \in orders : o.product = p.id /\ o.quantity > 0

\* every create_order in progress has a quantity of 1 or more
PositiveCalls == \A w \in Procs : pc[w] # "idle" => call[w].quantity >= 1

\* C2: the stock check, the decrement and the save of create_order are atomic
\* against concurrent calls on the product.  Among calls of a quantity of 1
\* or more: every save lowers the stored stock by the quantity of its call
\* (so the final stock is the initial stock less the quantities of the calls
\* that passed the check), and no call passes the check while another that
\* passed it has yet to save, unless the stock covers both.
C2_AtomicCheckAndDecrement ==
    [][PositiveCalls =>
          \A r \in Procs :
              /\ Saved(r) =>
                    StockIn(products', call[r].product.id)
                        = StockIn(products, call[r].product.id) - call[r].quantity
              /\ (Loaded(r) /\ call'[r].quantity >= 1) =>
                    \A other \in Procs \ {r} :
                        (pc[other] = "save"
                            /\ call[other].product.id = call'[r].product.id)
                        => call'[r].quantity + call[other].quantity
                               <= StockIn(products, call'[r].product.id)]_vars

\* C3: two concurrent create_order calls of one user for one product, each of
\* a quantity of 1 or more, leave one Order row for the pair: one call creates
\* it and reports Created, the other finds it and reports AlreadyExists.
\* Every such row is inserted by the call that reports Created, so no pair
\* ever has two of them.
C3_OneOrderPerPair ==
    \A u \in Users, pk \in ProductIds :
        Cardinality({o \in OrdersOf(u, pk) : o.quantity >= 1}) <= 1

\* C4: a create_order on an existing product with a quantity above its stock
\* answers 400 'Not enough stock available' and changes no row: no product's
\* stock, no order.
C4_InsufficientStockNoMutation ==
    [][\A pk \in ProductIds :
          ProductByPk(pk) # {} =>
              \A q \in IntegerQuantities :
                  (/\ IntOfQuantity[q].n > StockIn(products, pk)
                   /\ \E r \in Procs, u \in Users :
                          create_order_load(r, u, pk, q))
                  => /\ resp' = InsufficientStock
                     /\ UNCHANGED <<db, pc, call>>]_vars

C4_Witness ==
    /\ resp = InsufficientStock
    /\ Cardinality(products) = 2
    /\ orders # {}

\* C5: a create_order of a user who already has the one Order row for the
\* product, with 1 <= quantity <= stock, lowers the stock by the quantity (the
\* save writes the stock the call loaded less the quantity, order or no
\* order), then answers 400 'Order already exists' and changes no row: no
\* second Order row, the quantity of the first as it was, the stock not put
\* back.
C5_RepeatOrderConsumesStock ==
    [][\A r \in Procs :
          /\ (Saved(r) /\ OrdersOf(call[r].user, call[r].product.id) # {}) =>
                /\ StockIn(products', call[r].product.id)
                       = call[r].product.stock_quantity - call[r].quantity
                /\ orders' = orders
          /\ (Got(r) /\ Cardinality(OrdersOf(call[r].user, call[r].product.id)) = 1
                     /\ call[r].quantity >= 1) =>
                /\ resp' = AlreadyExists
                /\ pc'[r] = "idle"
                /\ UNCHANGED db]_vars

\* stock 2; an order of 1: Created, stock 1; the same user orders 1 again:
\* AlreadyExists, stock 0, one Order row of quantity 1
C5_Witness ==
    /\ resp = AlreadyExists
    /\ \E o \in orders, p \in products :
          /\ orders = {o}
          /\ products = {p}
          /\ o.product = p.id
          /\ o.quantity = 1
          /\ p.stock_quantity = 0
    /\ \A r \in Procs : pc[r] = "idle"

\* C6: Order rows come to exist only through create_order: every new row is
\* inserted by a create_order for the user who called it, and no (user,
\* product) pair has two rows.
C6_OrdersOnlyFromCreateOrder ==
    [][/\ \A o \in orders' \ orders :
             \E r \in Procs :
                 /\ Inserted(r)
                 /\ o.user = call[r].user
                 /\ o.product = call[r].product.id
       /\ \A u \in Users, pk \in ProductIds :
             Cardinality({o \in orders' : o.user = u /\ o.product = pk}) <= 1]_vars

\* C7: a create_order on an existing product answers 400 'Quantity is
\* required' when the quantity is absent and 400 'Invalid quantity value' when
\* it is present and does not parse as an integer, and changes no row.
C7_QuantityValidation ==
    [][\A r \in Procs, u \in Users, pk \in ProductIds, q \in QuantityInputs :
          (create_order_load(r, u, pk, q) /\ ProductByPk(pk) # {}) =>
              /\ q.type = "none" =>
                    resp' = Response(400, "Quantity is required")
              /\ (Truthy(q) /\ PyIntOf(q).raised # "") =>
                    resp' = Response(400, "Invalid quantity value")
              /\ (~Truthy(q) \/ PyIntOf(q).raised # "") =>
                    UNCHANGED <<db, pc, call>>]_vars

\* C8: every Order row has a quantity > 0 (a create_order with a quantity of
\* zero or below creates no order).
C8_OrderQuantityPositive == \A o \in orders : o.quantity > 0

\* the outcomes of update, partial_update and delete of product pk, asked by
\* u with the query parameters q
ProductRequests(u, pk, q) ==
    {ProductViewSet_update(u, pk, q, d) : d \in UpdateInputs}
    \cup {ProductViewSet_partial_update(u, pk, q, d) : d \in PartialInputs}
    \cup {ProductViewSet_destroy(u, pk, q)}

\* the outcomes of update, partial_update and delete of review pk, asked by u
ReviewRequests(u, pk) ==
    {ReviewViewSet_update(u, pk, d) : d \in ReviewInputs}
    \cup {ReviewViewSet_partial_update(u, pk, d) : d \in ReviewPartialInputs}
    \cup {ReviewViewSet_destroy(u, pk)}

NotOwnedProduct(u, pk) == \E p \in ProductByPk(pk) : p.user # u
NotOwnedReview(u, pk) == \E v \in reviews : v.id = pk /\ v.user # u

\* the request is answered with the status and changes no row
Refused(outcome, status) ==
    outcome.response.status = status /\ outcome.rows = Rows

\* C9, as the specification states it: update, partial_update and delete of a
\* Product or a Review by a user who is not its owner answer 403 and change
\* no row.
C9_NonOwnerForbidden ==
    /\ \A u \in Users, pk \in ProductIds, q \in QueryParams :
           NotOwnedProduct(u, pk) =>
               \A outcome \in ProductRequests(u, pk, q) : Refused(outcome, 403)
    /\ \A u \in Users, pk \in ReviewIds :
           NotOwnedReview(u, pk) =>
               \A outcome \in ReviewRequests(u, pk) : Refused(outcome, 403)

\* C9, amended: such a request never changes a row; it answers 403 when the
\* resource is in the view's queryset for the request (a Review always, a
\* Product unless ?search= or ?price= leave it out) and 404 otherwise.
C9_NonOwnerNeverWrites ==
    /\ \A u \in Users, pk \in ProductIds, q \in QueryParams :
           NotOwnedProduct(u, pk) =>
               \A outcome \in ProductRequests(u, pk, q) :
                   Refused(outcome, IF \E p \in get_queryset(q) : p.id = pk
                                    THEN 403 ELSE 404)
    /\ \A u \in Users, pk \in ReviewIds :
           NotOwnedReview(u, pk) =>
               \A outcome \in ReviewRequests(u, pk) : Refused(outcome, 403)

\* a request on another user's review was refused, the review as it was
C9_Witness ==
    /\ resp = Response(403, "You do not have permission to delete this review.")
    /\ reviews # {}
    /\ products # {}

\* C10: retrieve, update, partial_update and delete of an Order of another
\* user answer 404 and change no row; of an Order of the acting user they
\* succeed.
OrderRequest(u, pk) ==
    \/ OrderViewSet_retrieve(u, pk)
    \/ \E d \in OrderInputs : OrderViewSet_update(u, pk, d)
    \/ \E d \in OrderInputs : OrderViewSet_partial_update(u, pk, d)
    \/ OrderViewSet_destroy(u, pk)

C10_OrdersScopedToOwner ==
    [][\A u \in Users, pk \in OrderIds :
          (OrderRequest(u, pk) /\ \E o \in orders : o.id = pk) =>
              IF \E o \in orders : o.id = pk /\ o.user = u
              THEN resp'.status \in {200, 204, 400}
              ELSE resp' = Http404 /\ UNCHANGED <<db, pc, call>>]_vars

\* the response of a request that was refused for want of credentials
Unauthenticated(response) == response.status \in {401, 403}

\* C11, as the specification states it: on Product, Order, Review and Rate
\* alike, list and retrieve by a caller without credentials are let through,
\* and create, update, partial_update, delete and create-order by such a
\* caller are refused as unauthenticated and change no row.
C11_UniformGate ==
    [][\A view \in Views : \A action \in ActionsOf(view) :
          Request(view, action, AnonymousUser) =>
              IF action \in ReadActions
              THEN ~Unauthenticated(resp')
              ELSE Unauthenticated(resp') /\ UNCHANGED <<db, pc, call>>]_vars

\* C11, amended: list and retrieve by a caller without credentials are let
\* through on Product, Review and Rate; on Order every action, list and
\* retrieve included, and on the other three every mutating action, is
\* refused as unauthenticated and changes no row.
C11_GateByView ==
    [][\A view \in Views : \A action \in ActionsOf(view) :
          Request(view, action, AnonymousUser) =>
              IF action \in ReadActions /\ view # "orders"
              THEN ~Unauthenticated(resp') /\ UNCHANGED <<db, pc, call>>
              ELSE Unauthenticated(resp') /\ UNCHANGED <<db, pc, call>>]_vars

\* a caller without credentials was refused while every table had a row
C11_Witness ==
    /\ Unauthenticated(resp)
    /\ products # {}
    /\ orders # {}
    /\ reviews # {}
    /\ rates # {}

\* C12: a POST /reviews/ by an authenticated user with valid fields (a product
\* that exists, a text) answers 201 and stores a Review row of that product
\* whose user is the caller.
C12_ReviewCreateStoresAuthor ==
    [][\A u \in Users, d \in ReviewInputs :
          (/\ d.given = {"product", "review"}
           /\ ProductByPk(d.product) # {}
           /\ ReviewViewSet_create(u, d))
          => /\ resp'.status = 201
             /\ \E v \in reviews' \ reviews :
                    v.user = u /\ v.product = d.product]_vars

\* a token of the user in the rows
TokenKeys(rows, username) == {t.key : t \in {x \in rows : x.user = username}}

\* C13: a user never has two tokens; a login with good credentials answers
\* with the user's token, the one the user already had if there was one, and
\* removes no token; a login with bad credentials answers 400 and writes no
\* row; a logout leaves no row with the key of the token it deleted.
C13_LoginIdempotent ==
    [][/\ \A u \in Usernames : Cardinality(TokenKeys(tokens', u)) <= 1
       /\ \A r \in Procs, u \in Usernames, pw \in Passwords :
             login_validate(r, u, pw) =>
                 /\ UNCHANGED db
                 /\ authenticate(u, pw) = {} =>
                        resp'.status = 400 /\ pc'[r] = "idle"
                 /\ (authenticate(u, pw) # {} /\ TokensOf(u) # {}) =>
                        /\ resp'.status = 200
                        /\ TokenKeys(tokens, u) = {resp'.token}
       /\ \A r \in Procs :
             login_create(r) =>
                 /\ tokens \subseteq tokens'
                 /\ resp'.status = 200 =>
                        TokenKeys(tokens', call[r].user) = {resp'.token}
                 /\ (\E u \in users : u.username = call[r].user) =>
                        resp'.status = 200
       /\ \A u \in Usernames :
             (LogoutAPIView_post(u) /\ TokensOf(u) # {}) =>
                 /\ resp'.status = 200
                 /\ TokensOf(u)' = {}
                 /\ \A t \in TokensOf(u) :
                        ~\E other \in tokens' : other.key = t.key]_vars

\* a token was issued and deleted by a logout, and a later login issued the
\* token alice has now
C13_Witness ==
    /\ resp = LoginResponse(2)
    /\ tokens = {[user |-> "alice", key |-> 2]}
    /\ next_token_key = 3
    /\ \A r \in Procs : pc[r] = "idle"

\* C15: a register whose password and password_2 differ answers 400 and
\* writes no row: the users and the tokens are as they were.
C15_MismatchCreatesNoUser ==
    [][\A d \in RegisterInputs :
          (register(d) /\ d.password # d.password_2) =>
              /\ resp'.status = 400
              /\ UNCHANGED <<db, pc, call>>]_vars

\* a registration was refused for its passwords
C15_Witness ==
    /\ resp = Response(400, "Passwords must match.")
    /\ ~\E u \in users : u.username = "carol"

\* every row references a user and a product that exist
References(rows, accountRows, productRows) ==
    \A x \in rows :
        /\ \E u \in accountRows : u.username = x.user
        /\ \E p \in productRows : p.id = x.product

\* C14: the foreign keys always hold: every Product references a user that
\* exists, every Order, Review and Rate a user and a product that exist.
\* After delete_account(U) no Product, Order, Review, Rate or Token of U
\* is left; after a delete of product P no Order, Review or Rate of P is left.
C14_CascadeKeepsReferences ==
    [][/\ \A p \in products' : \E u \in users' : u.username = p.user
       /\ References(orders', users', products')
       /\ References(reviews', users', products')
       /\ References(rates', users', products')
       /\ \A u \in Users :
             AccountDeleteAPIView_destroy(u) =>
                 /\ ~\E a \in users' : a.username = u
                 /\ \A x \in products' : x.user # u
                 /\ \A x \in orders' : x.user # u
                 /\ \A x \in reviews' : x.user # u
                 /\ \A x \in rates' : x.user # u
                 /\ \A x \in tokens' : x.user # u
       /\ \A u \in Users, pk \in ProductIds :
             (Served(ProductViewSet_destroy(u, pk, NoQuery))
                  /\ resp'.status = 204) =>
                 /\ \A x \in products' : x.id # pk
                 /\ \A x \in orders' : x.product # pk
                 /\ \A x \in reviews' : x.product # pk
                 /\ \A x \in rates' : x.product # pk]_vars

\* alice's account was deleted after every table had had a row; her product
\* and every row that referenced her or it are gone, bob's account is left
C14_Witness ==
    /\ resp = Response(200, "Account deleted successfully")
    /\ ~UserExists("alice")
    /\ UserExists("bob")
    /\ next_product_id = 2
    /\ next_order_id > 1
    /\ next_review_id > 1
    /\ next_rate_id > 1
    /\ products = {}
    /\ orders = {}
    /\ reviews = {}
    /\ rates = {}

\* a price (in cents) from 0 to 1000.00 and a stock quantity from 0 to 100
InRanges(d) ==
    /\ 0 <= d.price /\ d.price <= 100000
    /\ 0 <= d.stock_quantity /\ d.stock_quantity <= 100

\* C16: a create or an update of a product (by its owner, the other fields
\* valid) stores the price and the stock quantity when the price is in
\* [0, 1000] and the stock quantity in [0, 100], the bounds included, and
\* otherwise answers 400 and changes no row.
C16_PriceAndStockRanges ==
    [][\A d \in CatalogInputs :
          /\ ProductViewSet_create("alice", d) =>
                IF InRanges(d)
                THEN /\ resp'.status = 201
                     /\ \E p \in products' \ products :
                            /\ p.price = d.price
                            /\ p.stock_quantity = d.stock_quantity
                ELSE resp'.status = 400 /\ UNCHANGED <<db, pc, call>>
          /\ \A pk \in ProductIds :
                (/\ ProductByPk(pk) # {}
                 /\ Served(ProductViewSet_update("alice", pk, NoQuery, d))) =>
                    IF InRanges(d)
                    THEN /\ resp'.status = 200
                         /\ \E p \in products' :
                                /\ p.id = pk
                                /\ p.price = d.price
                                /\ p.stock_quantity = d.stock_quantity
                    ELSE resp'.status = 400 /\ UNCHANGED <<db, pc, call>>]_vars

\* C17: no step of a create_order raises a product's stock: the save of a
\* call whose product has, in the table, the stock the call loaded leaves it
\* with that stock or less, and every other step of a create_order, and the
\* save for every other product, leaves the stock as it was.
C17_StockNeverIncreases ==
    [][\A r \in Procs :
          /\ (Saved(r) /\ StockIn(products, call[r].product.id)
                              = call[r].product.stock_quantity) =>
                /\ StockIn(products', call[r].product.id)
                       <= StockIn(products, call[r].product.id)
                /\ \A p \in products :
                       p.id # call[r].product.id => p \in products'
          /\ (Loaded(r) \/ Got(r) \/ Inserted(r)) => products' = products]_vars
====
